---- MODULE Spec2Model ----
(***************************************************************************)
(* ApiClient (lib/remote/apiclient.cpp): the console client of the Icinga  *)
(* 2 REST API.  ExecuteScript and AutocompleteScript each open a TLS       *)
(* stream, send one POST request, collect the response in a parse loop,    *)
(* and decode the JSON envelope to a value, a soft failure (nullptr) or a  *)
(* thrown error.                                                           *)
(*                                                                         *)
(* Strings are sequences of fragments (TLA+ strings); a raw body is a      *)
(* sequence of one-character fragments, NUL among them.  A Value is a      *)
(* tagged record as in base/value.hpp; a Dictionary is a function from     *)
(* its present keys to Values, an Array a sequence of Values.              *)
(***************************************************************************)
EXTENDS Integers, Sequences, FiniteSets, TLC

VARIABLES
    client,      \* m_Host, m_Port, m_User, m_Password
    callers,     \* the threads of the caller that invoke the client
    scenario,    \* what the caller and the server are taken from
    pc,          \* per thread: position of its call
    op,          \* per thread: "ExecuteScript" | "AutocompleteScript" | "none"
    args,        \* per thread: session, command, sandboxed
    stream,      \* per thread: the local TlsStream::Ptr (0 = null)
    refs,        \* per channel: intrusive reference count of the TlsStream
    req,         \* per thread: the local HttpRequest
    resp,        \* per thread: the local HttpResponse
    parseSteps,  \* per thread: Parse calls made by the read loop
    more,        \* per thread: what resp.Parse last returned (TRUE before the loop)
    errorMessage,\* per thread: the local String errorMessage
    log,         \* per thread: Log entries written by the call
    outcome      \* per thread: how the call ended

vars == <<client, callers, scenario, pc, op, args, stream, refs, req, resp, parseSteps,
          more, errorMessage, log, outcome>>

(***************************************************************************)
(* Bounds of the model.                                                    *)
(***************************************************************************)
NumThreads == 2
MaxParseSteps == 3
MaxBodyLen == 2

Threads == 1..NumThreads
ChanIds == 1..NumThreads

(***************************************************************************)
(* Values (base/value.hpp) and their conversions.                          *)
(***************************************************************************)
Empty == [type |-> "Empty"]
Num(n) == [type |-> "Number", v |-> n]
Str(s) == [type |-> "String", v |-> s]
Bool(b) == [type |-> "Boolean", v |-> b]
Dict(d) == [type |-> "Dictionary", v |-> d]
Arr(a) == [type |-> "Array", v |-> a]

IsEmpty(v) == v.type = "Empty"
IsObject(v) == v.type \in {"Dictionary", "Array"}

\* Dictionary::Get: the value under the key, Empty when the key is absent.
Get(d, key) == IF key \in DOMAIN d.v THEN d.v[key] ELSE Empty

\* Convert::ToString(int): the decimal digits.
DigitChars == <<"0", "1", "2", "3", "4", "5", "6", "7", "8", "9">>
RECURSIVE Digits(_)
Digits(n) == IF n < 10 THEN <<DigitChars[n + 1]>> ELSE Digits(n \div 10) \o Digits(n % 10)

ConvertToString(n) == IF n < 0 THEN <<"-">> \o Digits(0 - n) ELSE Digits(n)

\* Value::operator String.
ValueToString(v) ==
    CASE v.type = "Empty" -> <<>>
      [] v.type = "String" -> <<v.v>>
      [] v.type = "Number" -> ConvertToString(v.v)
      [] v.type = "Boolean" -> IF v.v THEN <<"true">> ELSE <<"false">>
      [] OTHER -> <<"Object of type '", v.type, "'">>

\* Value::operator double, narrowed to int by the assignment; the model's
\* numbers are integers.  Defined for Empty, Number and Boolean.
ValueToInt(v) ==
    CASE v.type = "Number" -> v.v
      [] v.type = "Boolean" -> IF v.v THEN 1 ELSE 0
      [] OTHER -> 0

\* Value::ToBool.
ValueToBool(v) ==
    CASE v.type = "Empty" -> FALSE
      [] v.type = "Boolean" -> v.v
      [] v.type = "Number" -> v.v # 0
      [] v.type = "String" -> v.v # ""
      [] v.type = "Dictionary" -> DOMAIN v.v # {}
      [] OTHER -> Len(v.v) > 0

\* Value::operator intrusive_ptr<T>: a null pointer for Empty, the object
\* for an object of class T, and an exception for anything else.
ConversionError(what) == [type |-> what]
ValueToPtr(v, T) ==
    CASE IsEmpty(v) -> [ok |-> TRUE, ptr |-> Empty]
      [] v.type = T -> [ok |-> TRUE, ptr |-> v]
      [] IsObject(v) -> [ok |-> FALSE, error |-> ConversionError("std::bad_cast")]
      [] OTHER -> [ok |-> FALSE, error |-> ConversionError("std::runtime_error")]

\* operator>=(Value, int) && operator<=(Value, int) on the entry's code:
\* an Empty code compares as 0.
HttpOkMin == 200
HttpOkMax == 299
IsSuccessCode(code) == ValueToInt(code) >= HttpOkMin /\ ValueToInt(code) <= HttpOkMax
IsSuccessStatus(StatusCode) == ~(StatusCode < HttpOkMin \/ StatusCode > HttpOkMax)

(***************************************************************************)
(* The response body.  A body is its text and what JsonDecode makes of     *)
(* that text (base/json.hpp): a Value, or ParseError when it is not JSON.  *)
(***************************************************************************)
NUL == "NUL"
Bytes == {"b", NUL}
ParseError == [type |-> "ParseError"]

RECURSIVE SeqsUpTo(_, _)
SeqsUpTo(S, n) ==
    IF n = 0 THEN {<<>>}
    ELSE LET shorter == SeqsUpTo(S, n - 1)
         IN shorter \cup {Append(q, x) : q \in shorter, x \in S}

TextBody(bytes) == [text |-> bytes, json |-> ParseError]
JsonBody(v) == [text |-> <<"{json}">>, json |-> v]

\* A char* read as a C string ends at its first NUL.
RECURSIVE CStr(_)
CStr(bytes) ==
    IF bytes = <<>> \/ Head(bytes) = NUL THEN <<>>
    ELSE <<Head(bytes)>> \o CStr(Tail(bytes))

\* resp.ReadBody into buffer[responseSize + 1], terminated by '\0'.
ReadBody(r) == [text |-> r.Body.text \o <<NUL>>, json |-> r.Body.json]

\* JsonDecode(buffer.get()): the C string is parsed.
JsonDecode(buffer) == buffer.json

(***************************************************************************)
(* The JSON the server may answer with.                                    *)
(***************************************************************************)
Absent == [type |-> "Absent"]
Field(key, v) == IF v = Absent THEN <<>> ELSE key :> v

StatusVals == {Absent, Str("Error: syntax")}
CodeVals == {Absent, Num(199), Num(200), Num(299), Num(300)}
ResultVals == {Absent, Empty, Num(42), Dict([x |-> Num(1)])}
SuggestionVals == {Absent, Arr(<<Str("foo"), Str("bar")>>)}
FullDebugInfo ==
    Dict([path |-> Str("x"), first_line |-> Num(3), first_column |-> Num(1),
          last_line |-> Num(3), last_column |-> Num(5)])
DebugInfoVals == {Absent, Dict(<<>>), Dict([path |-> Str("y"), last_line |-> Num(7)]),
                  FullDebugInfo}
IncompleteVals == {Absent, Bool(TRUE), Bool(FALSE)}

Entry(status, code, result, suggestions, debugInfo, incomplete) ==
    Dict(Field("status", status) @@ Field("code", code) @@ Field("result", result)
         @@ Field("suggestions", suggestions) @@ Field("debug_info", debugInfo)
         @@ Field("incomplete_expression", incomplete))

Entries ==
    {Entry(s, c, r, g, d, i) : s \in StatusVals, c \in CodeVals, r \in ResultVals,
                               g \in SuggestionVals, d \in DebugInfoVals,
                               i \in IncompleteVals}

\* Entries that may follow the first one.
LaterEntries ==
    {Entry(Str("Ok"), Num(200), Dict([y |-> Num(2)]), Arr(<<Str("baz")>>), Absent, Absent),
     Entry(Str("Later error"), Num(500), Absent, Absent, FullDebugInfo, Bool(TRUE))}

Envelopes ==
    {Dict(<<>>), Dict([results |-> Arr(<<>>)]), Dict([results |-> Arr(<<Empty>>)])}
    \cup {Dict([results |-> Arr(<<e>>)]) : e \in Entries}
    \cup {Dict([results |-> Arr(<<e, l>>)]) : e \in Entries, l \in LaterEntries}

JsonValues == Envelopes \cup {Empty, Num(1)}

Bodies == {TextBody(b) : b \in SeqsUpTo(Bytes, MaxBodyLen)} \cup {JsonBody(v) : v \in JsonValues}

StatusCodes == {199, 200, 299, 300, 500}

(***************************************************************************)
(* Outcomes of a call, errors and log entries.                             *)
(***************************************************************************)
NoOutcome == [kind |-> "None"]
Returned(ptr) == [kind |-> "Returned", value |-> ptr]
Raised(e) == [kind |-> "Raised", error |-> e]
\* Dereferencing a null intrusive_ptr: BOOST_ASSERT aborts a debug build, a
\* release build reads through address 0.
Crashes == {[kind |-> "Crashed", how |-> "assertion"], [kind |-> "Crashed", how |-> "segfault"]}

nullptr == Empty

\* DebugInfo(): empty path, zero lines and columns.
DefaultDebugInfo ==
    [Path |-> <<>>, FirstLine |-> 0, FirstColumn |-> 0, LastLine |-> 0, LastColumn |-> 0]

\* ScriptError(message, di, incompleteExpr) and ScriptError(message).
ScriptError3(message, di, incompleteExpr) ==
    [type |-> "ScriptError", message |-> message, di |-> di,
     incompleteExpression |-> incompleteExpr]
ScriptError1(message) == ScriptError3(message, DefaultDebugInfo, FALSE)

\* "throw ex;" with ex caught as const std::exception&: a copy of the
\* std::exception base is thrown.
StdException == [type |-> "std::exception"]

LogEntry(severity, facility, message) ==
    [severity |-> severity, facility |-> facility, message |-> message]

UnexpectedResult == <<"Unexpected result from API.">>

Decoded(out, entries, message) == [out |-> out, log |-> entries, errorMessage |-> message]

(***************************************************************************)
(* ExecuteScript, lines 105-161: from the collected response to the        *)
(* outcome.  The set holds every outcome the build can produce.            *)
(***************************************************************************)
\* Lines 105-109 and 207-211: the response is not complete.
IncompleteResponse ==
    Decoded(Returned(nullptr),
            <<LogEntry("warning", "ApiClient",
                       <<"Failed to read a complete HTTP response from the server.">>)>>,
            <<>>)

\* ExecuteUnexpectedStatus with the throw of line 116 in force.
ExecuteUnexpectedStatus_Throws(StatusCode) ==
    Decoded(Raised(ScriptError1(<<"Unexpected status code: ">> \o ConvertToString(StatusCode))),
            <<LogEntry("critical", "ApiClient",
                       <<"Unexpected status code: ">> \o ConvertToString(StatusCode))>>,
            <<>>)

\* Lines 111-117: ExecuteScript logs a status outside 200..299 and returns.
ExecuteUnexpectedStatus(StatusCode) ==
    Decoded(Returned(nullptr),
            <<LogEntry("critical", "ApiClient",
                       <<"Unexpected status code: ">> \o ConvertToString(StatusCode))>>,
            <<>>)

\* UnableToParse with the exception of the decoder let through.
UnableToParse_Raised(buffer) ==
    Decoded(Raised(StdException),
            <<LogEntry("warning", "ApiClient",
                       <<"Unable to parse JSON response:\n">> \o CStr(buffer.text))>>,
            <<>>)

\* Lines 129-133 and 228-232: catch (...) around JsonDecode.
UnableToParse(buffer) ==
    Decoded(Returned(nullptr),
            <<LogEntry("warning", "ApiClient",
                       <<"Unable to parse JSON response:\n">> \o CStr(buffer.text))>>,
            <<>>)

\* NoResults with the default message thrown instead of an empty return.
NoResults_Raised == Decoded(Raised(ScriptError1(UnexpectedResult)), <<>>, UnexpectedResult)

\* Lines 138, 161 and 235, 248: no entry in results; the empty Value or the
\* null Array::Ptr is returned.
NoResults == Decoded(Returned(nullptr), <<>>, UnexpectedResult)

\* ExecuteDebugInfo with the two columns taken from each other's key.
ExecuteDebugInfo_Swapped(debugInfo) ==
    IF debugInfo # nullptr
    THEN [Path |-> ValueToString(Get(debugInfo, "path")),
          FirstLine |-> ValueToInt(Get(debugInfo, "first_line")),
          FirstColumn |-> ValueToInt(Get(debugInfo, "last_column")),
          LastLine |-> ValueToInt(Get(debugInfo, "last_line")),
          LastColumn |-> ValueToInt(Get(debugInfo, "first_column"))]
    ELSE DefaultDebugInfo

\* Lines 147-155: the DebugInfo of a failure entry.
ExecuteDebugInfo(debugInfo) ==
    IF debugInfo # nullptr
    THEN [Path |-> ValueToString(Get(debugInfo, "path")),
          FirstLine |-> ValueToInt(Get(debugInfo, "first_line")),
          FirstColumn |-> ValueToInt(Get(debugInfo, "first_column")),
          LastLine |-> ValueToInt(Get(debugInfo, "last_line")),
          LastColumn |-> ValueToInt(Get(debugInfo, "last_column"))]
    ELSE DefaultDebugInfo

\* ExecuteIncompleteExpression with the entry's flag not read.
ExecuteIncompleteExpression_Dropped(resultInfo) == FALSE

\* Line 156: bool incompleteExpression = resultInfo->Get("incomplete_expression").
ExecuteIncompleteExpression(resultInfo) ==
    ValueToBool(Get(resultInfo, "incomplete_expression"))

\* Lines 147-157: the failure entry becomes a ScriptError.
ExecuteFailure(resultInfo, message) ==
    LET debugInfo == ValueToPtr(Get(resultInfo, "debug_info"), "Dictionary")
    IN IF ~debugInfo.ok THEN Raised(debugInfo.error)
       ELSE Raised(ScriptError3(message, ExecuteDebugInfo(debugInfo.ptr),
                                ExecuteIncompleteExpression(resultInfo)))

\* Lines 145 and 161: result = resultInfo->Get("result"); return result, the
\* Value converted to the Dictionary::Ptr the function returns.
ExecuteSuccess(resultInfo) ==
    LET result == ValueToPtr(Get(resultInfo, "result"), "Dictionary")
    IN IF result.ok THEN Returned(result.ptr) ELSE Raised(result.error)

\* Line 142 and 240: errorMessage = resultInfo->Get("status").
StatusMessage(resultInfo) == ValueToString(Get(resultInfo, "status"))

\* Lines 141-158: the first entry of results.
ExecuteEntry(first) ==
    LET resultInfo == ValueToPtr(first, "Dictionary")
    IN IF ~resultInfo.ok THEN {Decoded(Raised(resultInfo.error), <<>>, UnexpectedResult)}
       ELSE IF resultInfo.ptr = nullptr THEN {Decoded(c, <<>>, UnexpectedResult) : c \in Crashes}
       ELSE LET message == StatusMessage(resultInfo.ptr)
            IN IF IsSuccessCode(Get(resultInfo.ptr, "code"))
               THEN {Decoded(ExecuteSuccess(resultInfo.ptr), <<>>, message)}
               ELSE {Decoded(ExecuteFailure(resultInfo.ptr, message), <<>>, message)}

\* ExecuteAnswer taking the last entry of results for the first.
ExecuteAnswer_Last(answer) ==
    LET results == ValueToPtr(Get(answer, "results"), "Array")
    IN IF ~results.ok THEN {Decoded(Raised(results.error), <<>>, <<>>)}
       ELSE IF results.ptr # nullptr /\ Len(results.ptr.v) > 0
       THEN ExecuteEntry(results.ptr.v[Len(results.ptr.v)])
       ELSE {NoResults}

\* Lines 135-161: the decoded answer.
ExecuteAnswer(answer) ==
    LET results == ValueToPtr(Get(answer, "results"), "Array")
    IN IF ~results.ok THEN {Decoded(Raised(results.error), <<>>, <<>>)}
       ELSE IF results.ptr # nullptr /\ Len(results.ptr.v) > 0
       THEN ExecuteEntry(results.ptr.v[1])
       ELSE {NoResults}

\* ExecuteDecode looking into the body before the status.
ExecuteDecode_BodyFirst(r) ==
    IF ~r.Complete THEN {IncompleteResponse}
    ELSE LET buffer == ReadBody(r)
             decoded == JsonDecode(buffer)
             answer == ValueToPtr(decoded, "Dictionary")
         IN IF decoded = ParseError \/ ~answer.ok
            THEN IF ~IsSuccessStatus(r.StatusCode) THEN {ExecuteUnexpectedStatus(r.StatusCode)}
                 ELSE {UnableToParse(buffer)}
            ELSE IF answer.ptr = nullptr THEN {Decoded(c, <<>>, <<>>) : c \in Crashes}
            ELSE ExecuteAnswer(answer.ptr)

ExecuteDecode(r) ==
    IF ~r.Complete THEN {IncompleteResponse}
    ELSE IF ~IsSuccessStatus(r.StatusCode) THEN {ExecuteUnexpectedStatus(r.StatusCode)}
    ELSE LET buffer == ReadBody(r)
             decoded == JsonDecode(buffer)
             answer == ValueToPtr(decoded, "Dictionary")
         IN IF decoded = ParseError \/ ~answer.ok THEN {UnableToParse(buffer)}
            ELSE IF answer.ptr = nullptr THEN {Decoded(c, <<>>, <<>>) : c \in Crashes}
            ELSE ExecuteAnswer(answer.ptr)

(***************************************************************************)
(* AutocompleteScript, lines 207-248.                                      *)
(***************************************************************************)
\* AutocompleteFailure raising as ExecuteScript does, with DebugInfo and flag.
AutocompleteFailure_Rich(resultInfo, message) ==
    Raised(ScriptError3(message,
                        ExecuteDebugInfo(ValueToPtr(Get(resultInfo, "debug_info"), "Dictionary").ptr),
                        ExecuteIncompleteExpression(resultInfo)))

\* Line 245: the failure entry becomes a ScriptError of its message alone.
AutocompleteFailure(resultInfo, message) == Raised(ScriptError1(message))

\* Lines 243 and 248: suggestions = resultInfo->Get("suggestions"), the
\* Value converted to Array::Ptr.
AutocompleteSuccess(resultInfo) ==
    LET suggestions == ValueToPtr(Get(resultInfo, "suggestions"), "Array")
    IN IF suggestions.ok THEN Returned(suggestions.ptr) ELSE Raised(suggestions.error)

\* Lines 239-245: the first entry of results.
AutocompleteEntry(first) ==
    LET resultInfo == ValueToPtr(first, "Dictionary")
    IN IF ~resultInfo.ok THEN {Decoded(Raised(resultInfo.error), <<>>, UnexpectedResult)}
       ELSE IF resultInfo.ptr = nullptr THEN {Decoded(c, <<>>, UnexpectedResult) : c \in Crashes}
       ELSE LET message == StatusMessage(resultInfo.ptr)
            IN IF IsSuccessCode(Get(resultInfo.ptr, "code"))
               THEN {Decoded(AutocompleteSuccess(resultInfo.ptr), <<>>, message)}
               ELSE {Decoded(AutocompleteFailure(resultInfo.ptr, message), <<>>, message)}

\* Lines 234-248: the decoded answer.
AutocompleteAnswer(answer) ==
    LET results == ValueToPtr(Get(answer, "results"), "Array")
    IN IF ~results.ok THEN {Decoded(Raised(results.error), <<>>, <<>>)}
       ELSE IF results.ptr # nullptr /\ Len(results.ptr.v) > 0
       THEN AutocompleteEntry(results.ptr.v[1])
       ELSE {NoResults}

\* Line 219: the message of the ScriptError for a status outside 200..299.
HttpFailedMessage(StatusCode, buffer) ==
    <<"HTTP request failed; Code: ">> \o ConvertToString(StatusCode) \o <<"; Body: ">>
        \o CStr(buffer.text)

\* Lines 218-222.
AutocompleteHttpFailed(StatusCode, buffer) ==
    Decoded(Raised(ScriptError1(HttpFailedMessage(StatusCode, buffer))), <<>>, <<>>)

\* AutocompleteDecode with the status looked at before the completeness.
AutocompleteDecode_StatusFirst(r) ==
    LET buffer == ReadBody(r)
        decoded == JsonDecode(buffer)
        answer == ValueToPtr(decoded, "Dictionary")
    IN IF ~IsSuccessStatus(r.StatusCode) THEN {AutocompleteHttpFailed(r.StatusCode, buffer)}
       ELSE IF ~r.Complete THEN {IncompleteResponse}
       ELSE IF decoded = ParseError \/ ~answer.ok THEN {UnableToParse(buffer)}
       ELSE IF answer.ptr = nullptr THEN {Decoded(c, <<>>, <<>>) : c \in Crashes}
       ELSE AutocompleteAnswer(answer.ptr)

AutocompleteDecode(r) ==
    IF ~r.Complete THEN {IncompleteResponse}
    ELSE LET buffer == ReadBody(r)
             decoded == JsonDecode(buffer)
             answer == ValueToPtr(decoded, "Dictionary")
         IN IF ~IsSuccessStatus(r.StatusCode)
            THEN {AutocompleteHttpFailed(r.StatusCode, buffer)}
            ELSE IF decoded = ParseError \/ ~answer.ok THEN {UnableToParse(buffer)}
            ELSE IF answer.ptr = nullptr THEN {Decoded(c, <<>>, <<>>) : c \in Crashes}
            ELSE AutocompleteAnswer(answer.ptr)

(***************************************************************************)
(* The state machine.                                                      *)
(***************************************************************************)
Hosts == {"localhost"}
Ops == {"ExecuteScript", "AutocompleteScript"}
Sessions == {"s1"}
Commands == {"get_host("}

NoArgs == [session |-> "", command |-> "", sandboxed |-> FALSE]
NoRequest == [RequestMethod |-> "", RequestUrl |-> <<>>, Headers |-> <<>>,
              Body |-> <<>>, bodyWritten |-> FALSE, finished |-> FALSE]
\* HttpResponse resp(stream, req): nothing received yet.  StatusCode is read
\* only once Complete is set; 0 stands for the status line not parsed.
NewResponse == [Complete |-> FALSE, StatusCode |-> 0, Body |-> TextBody(<<>>)]

\* ApiClient::ApiClient, lines 33-35.
ApiClient(host, port, user, password) ==
    [m_Host |-> host, m_Port |-> port, m_User |-> user, m_Password |-> password]

\* The console against any server; two threads against a server of few
\* answers; one thread with several sessions and commands.
SmallBodies ==
    {TextBody(<<"b">>),
     JsonBody(Empty),
     JsonBody(Dict(<<>>)),
     JsonBody(Dict([results |-> Arr(<<Entry(Str("Ok"), Num(200), Empty, Absent, Absent,
                                              Absent)>>)])),
     JsonBody(Dict([results |-> Arr(<<Entry(Str("Ok"), Num(200), Dict([x |-> Num(1)]),
                                              Arr(<<Str("foo")>>), Absent, Absent)>>)])),
     JsonBody(Dict([results |-> Arr(<<Entry(Str("Error: syntax"), Num(300), Absent, Absent,
                                              FullDebugInfo, Bool(TRUE))>>)]))}
ServerBodies == IF scenario = "console" THEN Bodies ELSE SmallBodies
ServerStatusCodes == IF scenario = "console" THEN StatusCodes ELSE {200, 500}
ServerBytes == IF scenario = "console" THEN Bytes ELSE {"b"}
CallerSessions == IF scenario = "requests" THEN {"s1", "s2"} ELSE Sessions
CallerCommands == IF scenario = "requests" THEN {"", "get_host(", "a&b=c"} ELSE Commands

InitCalls ==
    /\ client \in {ApiClient(h, "5665", "root", "icinga") : h \in Hosts}
    /\ pc = [t \in Threads |-> "Idle"]
    /\ op = [t \in Threads |-> "none"]
    /\ args = [t \in Threads |-> NoArgs]
    /\ stream = [t \in Threads |-> 0]
    /\ refs = [c \in ChanIds |-> 0]
    /\ req = [t \in Threads |-> NoRequest]
    /\ resp = [t \in Threads |-> NewResponse]
    /\ parseSteps = [t \in Threads |-> 0]
    /\ more = [t \in Threads |-> TRUE]
    /\ errorMessage = [t \in Threads |-> <<>>]
    /\ log = [t \in Threads |-> <<>>]
    /\ outcome = [t \in Threads |-> NoOutcome]

\* One caller thread, as the console is.
Init == callers = {1} /\ scenario = "console" /\ InitCalls

\* Two threads of the caller share the ApiClient.
InitConcurrent == callers = {1, 2} /\ scenario = "concurrent" /\ InitCalls

\* One caller thread, several sessions and commands.
InitRequests == callers = {1} /\ scenario = "requests" /\ InitCalls

\* No thread has brought the process down.
Alive == \A t \in Threads : pc[t] # "Crashed"

\* The references the call's locals hold on its stream: stream itself, then
\* HttpRequest req(stream), then HttpResponse resp(stream, req).
Held(t) ==
    CASE pc[t] = "Composing" -> 1
      [] pc[t] \in {"WriteBody", "Finish"} -> 2
      [] pc[t] \in {"AwaitingResponse", "Decoding"} -> 3
      [] OTHER -> 0

\* ExitScope with the stream's references left behind.
ExitScope_Leaking(t) ==
    /\ refs' = refs
    /\ stream' = [stream EXCEPT ![t] = 0]

\* Leaving the function by return or throw destroys the locals; the
\* TlsStream goes with its last reference.
ExitScope(t) ==
    /\ refs' = IF stream[t] = 0 THEN refs
               ELSE [refs EXCEPT ![stream[t]] = refs[stream[t]] - Held(t)]
    /\ stream' = [stream EXCEPT ![t] = 0]

\* The call ends with outcome o after writing the log entries.
EndCall(t, o, entries) ==
    /\ outcome' = [outcome EXCEPT ![t] = o]
    /\ log' = [log EXCEPT ![t] = log[t] \o entries]
    /\ pc' = [pc EXCEPT ![t] = "Done"]
    /\ ExitScope(t)

\* The caller invokes ExecuteScript or AutocompleteScript (lines 54, 164).
Call(t) ==
    /\ Alive /\ pc[t] = "Idle"
    /\ \E o \in Ops, s \in CallerSessions, c \in CallerCommands, b \in BOOLEAN :
          /\ op' = [op EXCEPT ![t] = o]
          /\ args' = [args EXCEPT ![t] = [session |-> s, command |-> c, sandboxed |-> b]]
    /\ pc' = [pc EXCEPT ![t] = "Connecting"]
    /\ UNCHANGED <<client, callers, scenario, stream, refs, req, resp, parseSteps, more, errorMessage,
                   log, outcome>>

\* Connect handing out one stream kept for all calls.
Connect_Shared(t) ==
    /\ Alive /\ pc[t] = "Connecting"
    /\ stream' = [stream EXCEPT ![t] = 1]
    /\ refs' = [refs EXCEPT ![1] = refs[1] + 1]
    /\ pc' = [pc EXCEPT ![t] = "Composing"]
    /\ UNCHANGED <<client, callers, scenario, op, args, req, resp, parseSteps, more, errorMessage, log,
                   outcome>>

\* ApiClient::Connect, lines 37-52: a new socket, connected and shaken hands.
\* Connect returns the stream or throws, so the test at lines 58-61 never
\* finds a null stream.
Connect(t) ==
    /\ Alive /\ pc[t] = "Connecting"
    /\ \E c \in ChanIds :
          /\ refs[c] = 0
          /\ \A d \in ChanIds : d < c => refs[d] # 0
          /\ stream' = [stream EXCEPT ![t] = c]
          /\ refs' = [refs EXCEPT ![c] = 1]
    /\ pc' = [pc EXCEPT ![t] = "Composing"]
    /\ UNCHANGED <<client, callers, scenario, op, args, req, resp, parseSteps, more, errorMessage, log,
                   outcome>>

\* ConnectFail with the exception logged and swallowed.
ConnectFail_Swallowed(t) ==
    /\ Alive /\ pc[t] = "Connecting"
    /\ EndCall(t, Returned(nullptr),
              <<LogEntry("warning", "ApiClient",
                         <<"Can't connect to Api on host '", client.m_Host, "' port '",
                           client.m_Port, "'.">>)>>)
    /\ UNCHANGED <<client, callers, scenario, op, args, req, resp, parseSteps, more, errorMessage>>

\* Lines 45-49: connect or handshake threw; logged and thrown again.
ConnectFail(t) ==
    /\ Alive /\ pc[t] = "Connecting"
    /\ EndCall(t, Raised(StdException),
              <<LogEntry("warning", "ApiClient",
                         <<"Can't connect to Api on host '", client.m_Host, "' port '",
                           client.m_Port, "'.">>)>>)
    /\ UNCHANGED <<client, callers, scenario, op, args, req, resp, parseSteps, more, errorMessage>>

\* The order in which the keys were inserted.
StdMapOrder_Insertion == <<"session", "command", "sandboxed">>
\* std::map<String, std::vector<String>> iterates in key order.
StdMapOrder == <<"command", "sandboxed", "session">>
\* Params with the flag written as a word.
Params_BoolText(a) ==
    [session |-> <<a.session>>, command |-> <<a.command>>,
     sandboxed |-> <<IF a.sandboxed THEN "true" ELSE "false">>]
Params(a) ==
    [session |-> <<a.session>>, command |-> <<a.command>>,
     sandboxed |-> <<IF a.sandboxed THEN "1" ELSE "0">>]
Query(params) == [i \in 1..Len(StdMapOrder) |-> <<StdMapOrder[i], params[StdMapOrder[i]]>>]

PathOf(o) ==
    IF o = "ExecuteScript" THEN <<"v1", "console", "execute-script">>
    ELSE <<"v1", "console", "auto-complete-script">>

\* Lines 63-80 and 168-185: the URL and the request.
BuildRequest(o, a) ==
    [RequestMethod |-> "POST",
     RequestUrl |-> [Scheme |-> "https", Host |-> client.m_Host, Port |-> client.m_Port,
                     Path |-> PathOf(o), Query |-> Query(Params(a))],
     Headers |-> <<<<"Authorization",
                     <<"Basic ", "base64(", client.m_User, ":", client.m_Password, ")">>>>,
                   <<"Accept", <<"application/json">>>>>>,
     Body |-> <<>>, bodyWritten |-> FALSE, finished |-> FALSE]

\* Compose wiping the password once the Authorization header is built.
Compose_Wiping(t) ==
    /\ Alive /\ pc[t] = "Composing"
    /\ req' = [req EXCEPT ![t] = BuildRequest(op[t], args[t])]
    /\ refs' = [refs EXCEPT ![stream[t]] = refs[stream[t]] + 1]
    /\ pc' = [pc EXCEPT ![t] = IF op[t] = "ExecuteScript" THEN "WriteBody" ELSE "Finish"]
    /\ client' = [client EXCEPT !.m_Password = ""]
    /\ UNCHANGED <<callers, scenario, op, args, stream, resp, parseSteps, more, errorMessage, log,
                   outcome>>

Compose(t) ==
    /\ Alive /\ pc[t] = "Composing"
    /\ req' = [req EXCEPT ![t] = BuildRequest(op[t], args[t])]
    /\ refs' = [refs EXCEPT ![stream[t]] = refs[stream[t]] + 1]
    /\ pc' = [pc EXCEPT ![t] = IF op[t] = "ExecuteScript" THEN "WriteBody" ELSE "Finish"]
    /\ UNCHANGED <<client, callers, scenario, op, args, stream, resp, parseSteps, more, errorMessage, log,
                   outcome>>

\* WriteBody going on to read the response with the request not finished.
WriteBody_Pipelined(t) ==
    /\ Alive /\ pc[t] = "WriteBody"
    /\ req' = [req EXCEPT ![t].Body = req[t].Body \o <<>>, ![t].bodyWritten = TRUE]
    /\ resp' = [resp EXCEPT ![t] = NewResponse]
    /\ refs' = [refs EXCEPT ![stream[t]] = refs[stream[t]] + 1]
    /\ pc' = [pc EXCEPT ![t] = "AwaitingResponse"]
    /\ UNCHANGED <<client, callers, scenario, op, args, stream, parseSteps, more, errorMessage, log,
                   outcome>>

\* Line 84: req.WriteBody("", 0).
WriteBody(t) ==
    /\ Alive /\ pc[t] = "WriteBody"
    /\ req' = [req EXCEPT ![t].Body = req[t].Body \o <<>>, ![t].bodyWritten = TRUE]
    /\ pc' = [pc EXCEPT ![t] = "Finish"]
    /\ UNCHANGED <<client, callers, scenario, op, args, stream, refs, resp, parseSteps, more, errorMessage,
                   log, outcome>>

\* Lines 85 and 188: req.Finish(); then HttpResponse resp(stream, req).
FinishRequest(t) ==
    /\ Alive /\ pc[t] = "Finish"
    /\ req' = [req EXCEPT ![t].finished = TRUE]
    /\ resp' = [resp EXCEPT ![t] = NewResponse]
    /\ refs' = [refs EXCEPT ![stream[t]] = refs[stream[t]] + 1]
    /\ pc' = [pc EXCEPT ![t] = "AwaitingResponse"]
    /\ UNCHANGED <<client, callers, scenario, op, args, stream, parseSteps, more, errorMessage, log, outcome>>

\* Lines 86-90 and 189-193: writing threw; logged and thrown again.
SendFail(t) ==
    /\ Alive /\ pc[t] \in {"WriteBody", "Finish"}
    /\ EndCall(t, Raised(StdException),
              <<LogEntry("warning", "ApiClient",
                         <<"Cannot write to TCP socket on host '", client.m_Host, "' port '",
                           client.m_Port, "'.">>)>>)
    /\ UNCHANGED <<client, callers, scenario, op, args, req, resp, parseSteps, more, errorMessage>>

IsPrefix(p, q) == Len(p) <= Len(q) /\ SubSeq(q, 1, Len(p)) = p

\* Lines 96 and 199: resp.Parse returned true with the response not yet
\* complete: the status line or one more byte of the body was taken in.
ParseMore(t) ==
    /\ Alive /\ pc[t] = "AwaitingResponse"
    /\ parseSteps[t] < MaxParseSteps
    /\ \/ /\ resp[t].StatusCode = 0
          /\ \E code \in ServerStatusCodes : resp' = [resp EXCEPT ![t].StatusCode = code]
       \/ /\ resp[t].StatusCode # 0
          /\ Len(resp[t].Body.text) < MaxBodyLen
          /\ \E b \in ServerBytes :
                resp' = [resp EXCEPT ![t].Body = TextBody(Append(resp[t].Body.text, b))]
    /\ parseSteps' = [parseSteps EXCEPT ![t] = parseSteps[t] + 1]
    /\ more' = [more EXCEPT ![t] = TRUE]
    /\ UNCHANGED <<client, callers, scenario, pc, op, args, stream, refs, req, errorMessage, log,
                   outcome>>

\* resp.Parse took in the rest of the response: Complete is set and Parse
\* returns true.
ParseComplete(t) ==
    /\ Alive /\ pc[t] = "AwaitingResponse"
    /\ \E code \in ServerStatusCodes, body \in ServerBodies :
          /\ resp[t].StatusCode # 0 => code = resp[t].StatusCode
          /\ resp[t].Body.text # <<>> =>
                body.json = ParseError /\ IsPrefix(resp[t].Body.text, body.text)
          /\ resp' = [resp EXCEPT ![t] = [Complete |-> TRUE, StatusCode |-> code,
                                          Body |-> body]]
    /\ parseSteps' = [parseSteps EXCEPT ![t] = parseSteps[t] + 1]
    /\ more' = [more EXCEPT ![t] = TRUE]
    /\ pc' = [pc EXCEPT ![t] = "Decoding"]
    /\ UNCHANGED <<client, callers, scenario, op, args, stream, refs, req, errorMessage, log, outcome>>

\* resp.Parse returned false: nothing more to read, the response incomplete.
ParseEnd(t) ==
    /\ Alive /\ pc[t] = "AwaitingResponse"
    /\ parseSteps' = [parseSteps EXCEPT ![t] = parseSteps[t] + 1]
    /\ more' = [more EXCEPT ![t] = FALSE]
    /\ pc' = [pc EXCEPT ![t] = "Decoding"]
    /\ UNCHANGED <<client, callers, scenario, op, args, stream, refs, req, resp, errorMessage, log,
                   outcome>>

\* Lines 98-103 and 201-205: Parse threw; logged and thrown again.
ParseFail(t) ==
    /\ Alive /\ pc[t] = "AwaitingResponse"
    /\ EndCall(t, Raised(StdException),
              <<LogEntry("warning",
                         IF op[t] = "ExecuteScript" THEN "ApiClient" ELSE "InfluxdbWriter",
                         <<"Failed to parse HTTP response from host '", client.m_Host,
                           "' port '", client.m_Port, "': ">>)>>)
    /\ parseSteps' = [parseSteps EXCEPT ![t] = parseSteps[t] + 1]
    /\ UNCHANGED <<client, callers, scenario, op, args, req, resp, more, errorMessage>>

DecodeOf(o, r) == IF o = "ExecuteScript" THEN ExecuteDecode(r) ELSE AutocompleteDecode(r)

\* Lines 105-161 and 207-248: the call returns or throws.
Decode(t) ==
    /\ Alive /\ pc[t] = "Decoding"
    /\ \E d \in DecodeOf(op[t], resp[t]) :
          /\ d.out.kind # "Crashed"
          /\ errorMessage' = [errorMessage EXCEPT ![t] = d.errorMessage]
          /\ EndCall(t, d.out, d.log)
    /\ UNCHANGED <<client, callers, scenario, op, args, req, resp, parseSteps, more>>

\* A null pointer is dereferenced (lines 135, 142, 234, 240): the process
\* ends with no destructor run.
Crash(t) ==
    /\ Alive /\ pc[t] = "Decoding"
    /\ \E d \in DecodeOf(op[t], resp[t]) :
          /\ d.out.kind = "Crashed"
          /\ outcome' = [outcome EXCEPT ![t] = d.out]
    /\ pc' = [pc EXCEPT ![t] = "Crashed"]
    /\ UNCHANGED <<client, callers, scenario, op, args, stream, refs, req, resp, parseSteps, more,
                   errorMessage, log>>

\* The caller has the outcome; the thread may call again.
Return(t) ==
    /\ Alive /\ pc[t] = "Done"
    /\ pc' = [pc EXCEPT ![t] = "Idle"]
    /\ op' = [op EXCEPT ![t] = "none"]
    /\ args' = [args EXCEPT ![t] = NoArgs]
    /\ req' = [req EXCEPT ![t] = NoRequest]
    /\ resp' = [resp EXCEPT ![t] = NewResponse]
    /\ parseSteps' = [parseSteps EXCEPT ![t] = 0]
    /\ more' = [more EXCEPT ![t] = TRUE]
    /\ errorMessage' = [errorMessage EXCEPT ![t] = <<>>]
    /\ log' = [log EXCEPT ![t] = <<>>]
    /\ outcome' = [outcome EXCEPT ![t] = NoOutcome]
    /\ UNCHANGED <<client, callers, scenario, stream, refs>>

Next ==
    \/ \E t \in callers : Call(t)
    \/ \E t \in callers : Connect(t)
    \/ \E t \in callers : ConnectFail(t)
    \/ \E t \in callers : Compose(t)
    \/ \E t \in callers : WriteBody(t)
    \/ \E t \in callers : FinishRequest(t)
    \/ \E t \in callers : SendFail(t)
    \/ \E t \in callers : ParseMore(t)
    \/ \E t \in callers : ParseComplete(t)
    \/ \E t \in callers : ParseEnd(t)
    \/ \E t \in callers : ParseFail(t)
    \/ \E t \in callers : Decode(t)
    \/ \E t \in callers : Crash(t)
    \/ \E t \in callers : Return(t)

Spec == Init /\ [][Next]_vars
SpecConcurrent == InitConcurrent /\ [][Next]_vars
SpecRequests == InitRequests /\ [][Next]_vars

(***************************************************************************)
(* The response as the properties below read it, straight from the JSON.   *)
(***************************************************************************)
Done(t) == pc[t] = "Done"
\* The read loop was left by its condition, not by an exception.
PastLoop(t) == Done(t) /\ (resp[t].Complete \/ ~more[t])
Http2xx(t) == resp[t].StatusCode \in 200..299
HasEnvelope(t) ==
    Done(t) /\ resp[t].Complete /\ Http2xx(t) /\ resp[t].Body.json.type = "Dictionary"
EnvelopeOf(t) == resp[t].Body.json.v
HasEntry(t) ==
    /\ HasEnvelope(t)
    /\ "results" \in DOMAIN EnvelopeOf(t)
    /\ EnvelopeOf(t)["results"].type = "Array"
    /\ Len(EnvelopeOf(t)["results"].v) > 0
    /\ EnvelopeOf(t)["results"].v[1].type = "Dictionary"
EntryOf(t) == EnvelopeOf(t)["results"].v[1].v
FieldOr(e, key, default) == IF key \in DOMAIN e THEN e[key] ELSE default
CodeIn2xx(e) == "code" \in DOMAIN e /\ e["code"].type = "Number" /\ e["code"].v \in 200..299
SuccessEntry(t) == HasEntry(t) /\ CodeIn2xx(EntryOf(t))
FailureEntry(t) == HasEntry(t) /\ ~CodeIn2xx(EntryOf(t))
RaisedScriptError(t) == outcome[t].kind = "Raised" /\ outcome[t].error.type = "ScriptError"
Logged(t, head) == \E i \in 1..Len(log[t]) : log[t][i].message[1] = head

\* C1: for every complete 2xx response whose first results entry has a code
\* in [200,299], ExecuteScript returns exactly the entry's result value,
\* whatever JSON value it is, and AutocompleteScript returns exactly the
\* entry's suggestions (empty when absent); neither raises.
C1_ReturnsResultOrSuggestions ==
    \A t \in Threads :
        SuccessEntry(t) =>
            outcome[t] = IF op[t] = "ExecuteScript"
                         THEN Returned(FieldOr(EntryOf(t), "result", Empty))
                         ELSE Returned(FieldOr(EntryOf(t), "suggestions", Empty))

\* C2: on a complete response with a status outside [200,299],
\* AutocompleteScript raises ScriptError with the message
\* "HTTP request failed; Code: <code>; Body: <body>" and ExecuteScript
\* returns its null value without raising.
C2_HttpFailureAsymmetry ==
    \A t \in Threads :
        Done(t) /\ resp[t].Complete /\ ~Http2xx(t) =>
            IF op[t] = "AutocompleteScript"
            THEN /\ RaisedScriptError(t)
                 /\ outcome[t].error.message =
                        <<"HTTP request failed; Code: ">> \o ConvertToString(resp[t].StatusCode)
                            \o <<"; Body: ">> \o resp[t].Body.text
            ELSE outcome[t] = Returned(nullptr)

\* C3: when the read loop ends with the response not complete, both
\* operations return their null "no answer" value and do not raise,
\* whatever status code or partial body was received.
C3_IncompleteIsNoAnswer ==
    \A t \in Threads :
        PastLoop(t) /\ ~resp[t].Complete => outcome[t] = Returned(nullptr)

C3_Witness ==
    \E t \in Threads :
        /\ PastLoop(t) /\ ~resp[t].Complete
        /\ op[t] = "AutocompleteScript"
        /\ resp[t].StatusCode = 500 /\ resp[t].Body.text # <<>>
        /\ outcome[t] = Returned(nullptr)

\* C4: for a first entry with a code outside [200,299], ExecuteScript raises
\* ScriptError whose DebugInfo holds the entry's debug_info fields verbatim,
\* an absent field being the empty string or zero, and the all-default
\* DebugInfo when debug_info is absent.
ExpectedDebugInfo(e) ==
    LET d == IF "debug_info" \in DOMAIN e THEN e["debug_info"].v ELSE <<>>
    IN [Path |-> IF "path" \in DOMAIN d THEN <<d["path"].v>> ELSE <<>>,
        FirstLine |-> IF "first_line" \in DOMAIN d THEN d["first_line"].v ELSE 0,
        FirstColumn |-> IF "first_column" \in DOMAIN d THEN d["first_column"].v ELSE 0,
        LastLine |-> IF "last_line" \in DOMAIN d THEN d["last_line"].v ELSE 0,
        LastColumn |-> IF "last_column" \in DOMAIN d THEN d["last_column"].v ELSE 0]

C4_DebugInfoVerbatim ==
    \A t \in Threads :
        FailureEntry(t) /\ op[t] = "ExecuteScript" =>
            RaisedScriptError(t) /\ outcome[t].error.di = ExpectedDebugInfo(EntryOf(t))

C4_Witness ==
    \E t \in Threads :
        /\ FailureEntry(t) /\ op[t] = "ExecuteScript"
        /\ FieldOr(EntryOf(t), "debug_info", Empty) = FullDebugInfo
        /\ RaisedScriptError(t)
        /\ outcome[t].error.di = [Path |-> <<"x">>, FirstLine |-> 3, FirstColumn |-> 1,
                                  LastLine |-> 3, LastColumn |-> 5]

\* C5: when the decoded envelope has no results or an empty results
\* sequence, both operations return with no payload, the message left at
\* "Unexpected result from API."; neither raises.
C5_NoResultsIsDefault ==
    \A t \in Threads :
        HasEnvelope(t) /\ FieldOr(EnvelopeOf(t), "results", Arr(<<>>)) = Arr(<<>>) =>
            /\ outcome[t] = Returned(nullptr)
            /\ errorMessage[t] = <<"Unexpected result from API.">>

C5_Witness ==
    \E t \in Threads :
        /\ HasEnvelope(t) /\ EnvelopeOf(t) = [results |-> Arr(<<>>)]
        /\ op[t] = "AutocompleteScript"
        /\ outcome[t] = Returned(nullptr)

\* C6: the message of the ScriptError raised for a failure entry is the
\* entry's status, and "Unexpected result from API" when status is absent,
\* in both operations.
C6_MessageIsStatusOrDefault ==
    \A t \in Threads :
        FailureEntry(t) =>
            /\ RaisedScriptError(t)
            /\ IF "status" \in DOMAIN EntryOf(t)
               THEN outcome[t].error.message = <<EntryOf(t)["status"].v>>
               ELSE outcome[t].error.message \in {<<"Unexpected result from API">>,
                                                  <<"Unexpected result from API.">>}

\* C7: the ScriptError ExecuteScript raises for a failure entry carries the
\* entry's incomplete_expression when present, and false when absent.
C7_IncompleteExpression ==
    \A t \in Threads :
        FailureEntry(t) /\ op[t] = "ExecuteScript" =>
            /\ RaisedScriptError(t)
            /\ outcome[t].error.incompleteExpression =
                   IF "incomplete_expression" \in DOMAIN EntryOf(t)
                   THEN EntryOf(t)["incomplete_expression"].v
                   ELSE FALSE

C7_Witness ==
    \E t \in Threads :
        /\ FailureEntry(t) /\ op[t] = "ExecuteScript"
        /\ FieldOr(EntryOf(t), "incomplete_expression", Empty) = Bool(TRUE)
        /\ RaisedScriptError(t) /\ outcome[t].error.incompleteExpression

\* C8: every ScriptError AutocompleteScript raises carries a message only:
\* the default DebugInfo and no incomplete-expression flag, even when the
\* entry holds debug_info and incomplete_expression.
C8_AutocompleteMessageOnly ==
    \A t \in Threads :
        Done(t) /\ op[t] = "AutocompleteScript" /\ RaisedScriptError(t) =>
            /\ outcome[t].error.di = [Path |-> <<>>, FirstLine |-> 0, FirstColumn |-> 0,
                                      LastLine |-> 0, LastColumn |-> 0]
            /\ outcome[t].error.incompleteExpression = FALSE

C8_Witness ==
    \E t \in Threads :
        /\ FailureEntry(t) /\ op[t] = "AutocompleteScript"
        /\ FieldOr(EntryOf(t), "debug_info", Empty) = FullDebugInfo
        /\ FieldOr(EntryOf(t), "incomplete_expression", Empty) = Bool(TRUE)
        /\ RaisedScriptError(t)

\* C9: a failure of the connect or handshake, of sending the request or of
\* the read loop always ends the call in a raised error, never in a returned
\* value; after a connect failure no request was written.
ConnectFailed(t) == Logged(t, "Can't connect to Api on host '")
SendFailed(t) == Logged(t, "Cannot write to TCP socket on host '")
ReadFailed(t) == Logged(t, "Failed to parse HTTP response from host '")

C9_TransportFailureRaised ==
    \A t \in Threads :
        /\ Done(t) /\ (ConnectFailed(t) \/ SendFailed(t) \/ ReadFailed(t)) =>
               outcome[t].kind = "Raised"
        /\ Done(t) /\ ConnectFailed(t) => ~req[t].bodyWritten /\ ~req[t].finished

C9_Witness ==
    \E t \in Threads :
        Done(t) /\ ConnectFailed(t) /\ outcome[t].kind = "Raised" /\ ~req[t].finished

\* C10: the stream a call opened is released on every exit of the call,
\* by return or by throw: a finished call holds no stream, and no stream
\* stays referenced without a call in flight holding it.
InFlight(t) == pc[t] \notin {"Idle", "Done"}

C10_ChannelReleased ==
    /\ \A t \in Threads : ~InFlight(t) => stream[t] = 0
    /\ \A c \in ChanIds : refs[c] > 0 => \E t \in Threads : InFlight(t) /\ stream[t] = c

C10_Witness ==
    \E t \in Threads :
        /\ Done(t) /\ RaisedScriptError(t) /\ req[t].finished
        /\ \A c \in ChanIds : refs[c] = 0

Composed(t) == req[t] # NoRequest
QueryKeys(t) == [i \in 1..Len(req[t].RequestUrl.Query) |-> req[t].RequestUrl.Query[i][1]]
QueryValue(t, key) ==
    LET q == req[t].RequestUrl.Query
    IN  q[CHOOSE i \in 1..Len(q) : q[i][1] = key][2]

\* C11: for every session, command and sandboxed flag, the request of each
\* operation is a POST to its fixed path (v1/console/execute-script or
\* v1/console/auto-complete-script) whose query parameters are exactly the
\* three keys session, command and sandboxed, each with the single value
\* given by the caller, sandboxed being "1" for true and "0" for false; the
\* body ExecuteScript sends is zero-length whatever the command.
C11_RequestShape ==
    \A t \in Threads : Composed(t) =>
        /\ req[t].RequestMethod = "POST"
        /\ req[t].RequestUrl.Path =
              (IF op[t] = "ExecuteScript" THEN <<"v1", "console", "execute-script">>
               ELSE <<"v1", "console", "auto-complete-script">>)
        /\ Len(QueryKeys(t)) = 3
        /\ {QueryKeys(t)[i] : i \in 1..3} = {"session", "command", "sandboxed"}
        /\ QueryValue(t, "session") = <<args[t].session>>
        /\ QueryValue(t, "command") = <<args[t].command>>
        /\ QueryValue(t, "sandboxed") = <<IF args[t].sandboxed THEN "1" ELSE "0">>
        /\ req[t].Body = <<>>
        /\ (op[t] = "ExecuteScript" /\ req[t].finished) => req[t].bodyWritten

C11_Witness ==
    \E t \in Threads :
        /\ op[t] = "ExecuteScript" /\ req[t].finished /\ req[t].bodyWritten
        /\ args[t].command = "a&b=c" /\ args[t].session = "s2" /\ ~args[t].sandboxed
        /\ QueryValue(t, "sandboxed") = <<"0">>

\* C12 as the specification states it: the query parameters of the request
\* are in insertion order, session, then command, then sandboxed, for both
\* operations.
C12_InsertionOrder ==
    \A t \in Threads : Composed(t) => QueryKeys(t) = <<"session", "command", "sandboxed">>

\* C12: the query parameters of the request are in the order of their keys,
\* command, then sandboxed, then session, for both operations.
C12_KeyOrder ==
    \A t \in Threads : Composed(t) => QueryKeys(t) = <<"command", "sandboxed", "session">>

C12_Witness ==
    \E t \in Threads :
        /\ op[t] = "AutocompleteScript" /\ req[t].finished
        /\ req[t].RequestUrl.Query[1] = <<"command", <<"get_host(">>>>
        /\ req[t].RequestUrl.Query[3] = <<"session", <<"s1">>>>

\* What the call of thread t comes to when it runs alone against the
\* responses it was given: a transport failure raises, otherwise the
\* response read decides.
AloneOutcomes(t) ==
    IF PastLoop(t) THEN {d.out : d \in DecodeOf(op[t], resp[t])} ELSE {Raised(StdException)}

\* C13: concurrent calls on one ApiClient are independent: each call has a
\* channel of its own, held by its own locals only, and whatever the other
\* thread does, a finished call has the outcome it reaches alone against the
\* same responses.
C13_CallsIndependent ==
    /\ \A t1, t2 \in Threads :
          (t1 # t2 /\ stream[t1] # 0) => stream[t1] # stream[t2]
    /\ \A t \in Threads :
          (stream[t] # 0 /\ pc[t] # "Crashed") => refs[stream[t]] = Held(t)
    /\ \A t \in Threads : Done(t) => outcome[t] \in AloneOutcomes(t)

C13_Witness ==
    /\ pc[1] = "AwaitingResponse" /\ stream[1] # 0 /\ op[1] = "AutocompleteScript"
    /\ parseSteps[1] > 0
    /\ Done(2) /\ op[2] = "ExecuteScript" /\ RaisedScriptError(2)

\* C14: when the body of a complete response with a status in [200,299] is
\* not JSON, both operations log the failure and return the null value, "no
\* result" from ExecuteScript and "no suggestions" from AutocompleteScript;
\* neither raises.
C14_BadJsonIsSoft ==
    \A t \in Threads :
        (Done(t) /\ resp[t].Complete /\ Http2xx(t) /\ resp[t].Body.json = ParseError) =>
            /\ outcome[t] = [kind |-> "Returned", value |-> Empty]
            /\ Logged(t, "Unable to parse JSON response:\n")

C14_Witness ==
    \E t \in Threads :
        /\ Done(t) /\ op[t] = "AutocompleteScript"
        /\ resp[t].Complete /\ resp[t].StatusCode = 200
        /\ resp[t].Body.json = ParseError /\ resp[t].Body.text = <<"b", "b">>
        /\ outcome[t].kind = "Returned"

\* The request of thread t is written out: finished, and for ExecuteScript
\* the body written before that.
FullyWritten(t) == req[t].finished /\ (op[t] = "ExecuteScript" => req[t].bodyWritten)

\* C15: within one call every parse step on the response starts with the
\* request fully written, and once a parse step was taken the request of
\* that call is written to no more.
C15_WriteBeforeRead ==
    [][\A t \in Threads :
          /\ parseSteps'[t] > parseSteps[t] => FullyWritten(t)
          /\ (parseSteps[t] > 0 /\ pc'[t] # "Idle") => req'[t] = req[t]]_vars

C15_Witness ==
    \E t \in Threads :
        /\ pc[t] = "AwaitingResponse" /\ parseSteps[t] = 2
        /\ op[t] = "ExecuteScript" /\ req[t].finished /\ req[t].bodyWritten

\* The call of thread t has ended, by an outcome or with the process.
Ended(t) == pc[t] \in {"Done", "Crashed"}

\* C16: the read loop takes another parse step exactly while the previous
\* step reported more data and the response is not complete, and is left
\* when the response is complete or a step reported no more data; every call
\* that ends does so in exactly one of the outcomes Succeeded, SoftFailed
\* (both returned) and Raised.
C16_LoopThenOutcome ==
    \A t \in Threads :
        /\ pc[t] = "AwaitingResponse" => (more[t] /\ ~resp[t].Complete)
        /\ pc[t] = "Decoding" => (resp[t].Complete \/ ~more[t])
        /\ Ended(t) => outcome[t].kind \in {"Returned", "Raised"}

\* The response of thread t with results cut down to its first entry.
FirstEntryOnly(t) ==
    [resp[t] EXCEPT !.Body =
        JsonBody(Dict([results |-> Arr(<<EnvelopeOf(t)["results"].v[1]>>)]))]

\* C17: one entry of results is consulted per call, the first: a call
\* answered by an envelope of several entries has the outcome, return value
\* or ScriptError, of the same call answered by the first entry alone,
\* whatever the entries after it.
C17_FirstEntryDecides ==
    \A t \in Threads :
        HasEntry(t) => outcome[t] \in {d.out : d \in DecodeOf(op[t], FirstEntryOnly(t))}

C17_Witness ==
    \E t \in Threads :
        /\ HasEntry(t) /\ op[t] = "ExecuteScript" /\ SuccessEntry(t)
        /\ Len(EnvelopeOf(t)["results"].v) = 2
        /\ ~CodeIn2xx(EnvelopeOf(t)["results"].v[2].v)
        /\ outcome[t] = [kind |-> "Returned", value |-> Dict([x |-> Num(1)])]

\* Nothing of the call of thread t is left.
NothingKept(t) ==
    /\ stream[t] = 0 /\ req[t] = NoRequest /\ resp[t] = NewResponse
    /\ parseSteps[t] = 0 /\ errorMessage[t] = <<>> /\ outcome[t] = NoOutcome

\* C18: no step of any call, whatever its outcome, changes the host, port,
\* user and password the client was constructed with; when a call is over
\* nothing of it is kept, no channel either, and the outcome of a finished
\* call is decided by its own operation and the response it was given.
C18_ClientUnchanged ==
    [][/\ client' = client
       /\ \A t \in Threads : pc'[t] = "Idle" => NothingKept(t)'
       /\ (\A t \in Threads : pc'[t] = "Idle") => refs' = [c \in ChanIds |-> 0]
       /\ \A t \in Threads : Done(t) => outcome[t] \in AloneOutcomes(t)]_vars

C18_Witness ==
    \E t \in Threads :
        /\ Done(t) /\ op[t] = "AutocompleteScript" /\ RaisedScriptError(t)
        /\ client = [m_Host |-> "localhost", m_Port |-> "5665", m_User |-> "root",
                     m_Password |-> "icinga"]
        /\ refs = [c \in ChanIds |-> 0]

\* ExecuteScript ended on one of its soft-failure paths: response
\* incomplete, status outside [200,299], or body not JSON.
ExecuteSoftFailed(t) ==
    /\ PastLoop(t) /\ op[t] = "ExecuteScript"
    /\ \/ ~resp[t].Complete
       \/ ~Http2xx(t)
       \/ resp[t].Body.json = ParseError
\* ExecuteScript was answered with a success entry whose result is null.
ExecuteNullResult(t) ==
    /\ op[t] = "ExecuteScript" /\ SuccessEntry(t)
    /\ FieldOr(EntryOf(t), "result", Empty) = Empty

\* C19: a call of ExecuteScript that failed softly (unexpected status,
\* incomplete response or body not JSON) and a call whose script evaluated
\* to null return the same value, the null one: the return value alone does
\* not tell the two apart.
C19_SoftFailureLooksLikeNull ==
    \A t1, t2 \in Threads :
        (ExecuteSoftFailed(t1) /\ ExecuteNullResult(t2)) =>
            /\ outcome[t1].kind = "Returned"
            /\ outcome[t1] = outcome[t2]

C19_Witness ==
    /\ ExecuteSoftFailed(1) /\ resp[1].Complete /\ resp[1].StatusCode = 500
    /\ ExecuteNullResult(2) /\ "result" \in DOMAIN EntryOf(2)
    /\ outcome[1] = outcome[2]

\* C20: the checks come in the order completion, HTTP status, JSON, results,
\* code of the entry.  ExecuteScript raises a ScriptError only for a
\* complete response with a status in [200,299] whose body decodes to
\* non-empty results with a first entry of a code outside [200,299]; an
\* incomplete response is "no answer" whatever its status, also for
\* AutocompleteScript, and a complete response of another status has its
\* body left unread by ExecuteScript.
C20_CheckPrecedence ==
    \A t \in Threads :
        /\ (Done(t) /\ op[t] = "ExecuteScript" /\ RaisedScriptError(t)) => FailureEntry(t)
        /\ (PastLoop(t) /\ ~resp[t].Complete) =>
              /\ outcome[t] = [kind |-> "Returned", value |-> Empty]
              /\ Logged(t, "Failed to read a complete HTTP response from the server.")
        /\ (PastLoop(t) /\ op[t] = "ExecuteScript" /\ resp[t].Complete /\ ~Http2xx(t)) =>
              /\ outcome[t] = [kind |-> "Returned", value |-> Empty]
              /\ Logged(t, "Unexpected status code: ")

C20_Witness ==
    \E t \in Threads :
        /\ Done(t) /\ op[t] = "ExecuteScript"
        /\ resp[t].Complete /\ resp[t].StatusCode = 500
        /\ resp[t].Body.json.type = "Dictionary"
        /\ "results" \in DOMAIN resp[t].Body.json.v
        /\ Len(resp[t].Body.json.v["results"].v) = 1
        /\ resp[t].Body.json.v["results"].v[1].type = "Dictionary"
        /\ ~CodeIn2xx(resp[t].Body.json.v["results"].v[1].v)
        /\ outcome[t].kind = "Returned"

====
